---- MODULE Spec2Model ----
(***************************************************************************)
(* Model of src/utils.c of libimobiledevice-glue: the base64 encoder       *)
(* (base64encode) and the plist pretty-printer                             *)
(* (plist_print_to_stream_with_indentation and its static helpers).        *)
(*                                                                         *)
(* Text is modelled as a sequence of one-character strings, a byte buffer  *)
(* as a sequence of numbers 0..255, a pointer as a record with a null      *)
(* flag.                                                                   *)
(***************************************************************************)
EXTENDS Integers, Sequences, FiniteSets, TLC

\* ------------------------------------------------------------------ bounds
\* longest input buffer handed to base64encode
MaxBufLen == 4
\* largest tree (number of nodes) drawn for the printer
MaxNodes == 4
\* largest starting indentation drawn for the printer
MaxIndent == 1
\* largest tree (number of nodes) drawn for each of two concurrent calls
MaxConcNodes == 2

\* byte values the input buffers are drawn from
B64Bytes == {0, 3, 77, 97, 110, 128, 252, 255}

\* ------------------------------------------------------------------ helpers
\* a null pointer and a pointer to the data d
NullPtr == [null |-> TRUE, data |-> <<>>]
Ptr(d) == [null |-> FALSE, data |-> d]

RECURSIVE Pow2(_)
Pow2(k) == IF k = 0 THEN 1 ELSE 2 * Pow2(k - 1)

\* C's x >> k, x << k and x & (2^k - 1) on non-negative values
Shr(x, k) == x \div Pow2(k)
Shl(x, k) == x * Pow2(k)
LowBits(x, k) == x % Pow2(k)

\* all sequences over S of length at most k
RECURSIVE SeqsUpTo(_, _)
SeqsUpTo(S, k) ==
    IF k = 0 THEN {<<>>}
    ELSE LET shorter == SeqsUpTo(S, k - 1)
         IN  shorter \cup {Append(s, x) : s \in shorter, x \in S}

\* ------------------------------------------------------------------ state
VARIABLES
    \* base64encode: position (bpc), arguments (buf, size), locals (outbuf, n,
    \* m), result (ret); oob: a store outside outbuf's allocation happened;
    \* badidx: base64_str was read outside 0..63
    bpc, buf, size, outbuf, n, m, oob, badidx, ret,
    \* the printer, per calling thread: position (pc), arguments (arg), the
    \* local int indent, the frames of the static helpers on the call stack
    \* (stack), the text written to the thread's stream (out)
    pc, arg, indent, stack, out,
    \* the entries written so far, in order, each with its place in the tree
    \* (log), and the plist_node_print_to_stream call that returned last (last)
    log, last,
    \* the struct tm localtime() returns a pointer to, one per process
    tm_static

b64vars == <<bpc, buf, size, outbuf, n, m, oob, badidx, ret>>
rvars == <<pc, arg, indent, stack, out, log, last, tm_static>>
vars == <<b64vars, rvars>>

\* ------------------------------------------------------------------ base64
base64_str ==
    << "A","B","C","D","E","F","G","H","I","J","K","L","M",
       "N","O","P","Q","R","S","T","U","V","W","X","Y","Z",
       "a","b","c","d","e","f","g","h","i","j","k","l","m",
       "n","o","p","q","r","s","t","u","v","w","x","y","z",
       "0","1","2","3","4","5","6","7","8","9","+","/" >>

base64_pad == "="

\* the terminating 0 byte of a C string, and a cell malloc left unwritten
NUL == "NUL"
Uninit == "?"

\* base64_str[k] for a C (zero-based) index; a read outside the array is
\* recorded by the loop (badidx) and gives an unspecified cell
Base64Char(k) == IF k \in 0..63 THEN base64_str[k + 1] ELSE Uninit

\* input[0..2] of one loop round: the bytes at n, n+1, n+2, zero past the end
GroupInput(b, sz, k) ==
    << b[k + 1],
       IF k + 1 < sz THEN b[k + 2] ELSE 0,
       IF k + 2 < sz THEN b[k + 3] ELSE 0 >>

\* output[] with the two low bits of input[0] shifted by 2 instead of 4
GroupOutputMutShift(input) ==
    << Shr(input[1], 2),
       Shl(LowBits(input[1], 2), 2) + Shr(input[2], 4),
       Shl(LowBits(input[2], 4), 2) + Shr(input[3], 6),
       LowBits(input[3], 6) >>

\* output[0..3] of one loop round
GroupOutput(input) ==
    << Shr(input[1], 2),
       Shl(LowBits(input[1], 2), 4) + Shr(input[2], 4),
       Shl(LowBits(input[2], 4), 2) + Shr(input[3], 6),
       LowBits(input[3], 6) >>

\* int outlen = (size / 3) * 4; the sizes drawn here are far below INT_MAX,
\* where the conversion of the size_t product to int changes nothing
OutLen(sz) == (sz \div 3) * 4

\* malloc without the four spare bytes
AllocSizeMutNoSpare(sz) == OutLen(sz) + 1

\* the argument of malloc
AllocSize(sz) == OutLen(sz) + 5

\* outbuf[k] = c for a C index k; a write outside the allocation is recorded
Store(ob, k, c) == IF k < Len(ob) THEN [ob EXCEPT ![k + 1] = c] ELSE ob
InBounds(ob, k) == k < Len(ob)

\* the text of a C string: the cells before the first NUL
RECURSIVE CStr(_)
CStr(cells) ==
    IF cells = <<>> \/ Head(cells) = NUL THEN <<>>
    ELSE <<Head(cells)>> \o CStr(Tail(cells))

\* if (!buf || !(size > 0)) return NULL; ... malloc
base64encode_enter ==
    /\ bpc = "call"
    /\ IF buf.null \/ ~(size > 0)
       THEN /\ ret' = NullPtr
            /\ bpc' = "done"
            /\ UNCHANGED <<outbuf, n, m>>
       ELSE /\ outbuf' = [k \in 1..AllocSize(size) |-> Uninit]
            /\ n' = 0
            /\ m' = 0
            /\ bpc' = "loop"
            /\ UNCHANGED ret
    /\ UNCHANGED <<buf, size, oob, badidx>>
    /\ UNCHANGED rvars

\* the four characters one loop round stores at outbuf[m..m+3]
GroupChars(b, sz, k) ==
    LET output == GroupOutput(GroupInput(b, sz, k))
    IN  << Base64Char(output[1]),
           Base64Char(output[2]),
           IF k + 1 < sz THEN Base64Char(output[3]) ELSE base64_pad,
           IF k + 2 < sz THEN Base64Char(output[4]) ELSE base64_pad >>

\* a round that stores three characters and leaves out the fourth
base64encode_loop_MutThree ==
    /\ bpc = "loop"
    /\ n < size
    /\ LET c == GroupChars(buf.data, size, n)
           output == GroupOutput(GroupInput(buf.data, size, n))
       IN  /\ outbuf' = Store(Store(Store(outbuf, m, c[1]), m + 1, c[2]), m + 2, c[3])
           /\ oob' = (oob \/ ~InBounds(outbuf, m + 2))
           /\ badidx' = (badidx \/ \E j \in 1..4 : output[j] \notin 0..63)
    /\ m' = m + 3
    /\ n' = n + 3
    /\ UNCHANGED <<bpc, buf, size, ret>>
    /\ UNCHANGED rvars

\* one round of while (n < size)
base64encode_loop ==
    /\ bpc = "loop"
    /\ n < size
    /\ LET c == GroupChars(buf.data, size, n)
           output == GroupOutput(GroupInput(buf.data, size, n))
       IN  /\ outbuf' = Store(Store(Store(Store(outbuf, m, c[1]),
                                          m + 1, c[2]), m + 2, c[3]), m + 3, c[4])
           /\ oob' = (oob \/ ~InBounds(outbuf, m + 3))
           /\ badidx' = (badidx \/ \E j \in 1..4 : output[j] \notin 0..63)
    /\ m' = m + 4
    /\ n' = n + 3
    /\ UNCHANGED <<bpc, buf, size, ret>>
    /\ UNCHANGED rvars

\* outbuf[m] = 0; return outbuf;
base64encode_exit ==
    /\ bpc = "loop"
    /\ ~(n < size)
    /\ outbuf' = Store(outbuf, m, NUL)
    /\ oob' = (oob \/ ~InBounds(outbuf, m))
    /\ ret' = Ptr(outbuf')
    /\ bpc' = "done"
    /\ UNCHANGED <<buf, size, n, m, badidx>>
    /\ UNCHANGED rvars

\* the whole function on a buffer b of sz bytes, as the printer calls it
RECURSIVE EncodeFrom(_, _, _)
EncodeFrom(b, sz, k) ==
    IF k < sz THEN GroupChars(b, sz, k) \o EncodeFrom(b, sz, k + 3) ELSE <<>>

base64encode(b, sz) ==
    IF b.null \/ ~(sz > 0) THEN NullPtr ELSE Ptr(EncodeFrom(b.data, sz, 0))

\* ------------------------------------------------------------------ text
DigitChars == <<"0", "1", "2", "3", "4", "5", "6", "7", "8", "9">>

\* printf's %d / PRIu64 of a non-negative number
RECURSIVE Dec(_)
Dec(k) ==
    IF k < 10 THEN <<DigitChars[k + 1]>>
    ELSE Dec(k \div 10) \o <<DigitChars[(k % 10) + 1]>>

\* the decimal digits of k, zero-padded to at least w characters
RECURSIVE ZeroPad(_, _)
ZeroPad(k, w) ==
    IF w <= 1 THEN Dec(k)
    ELSE IF Len(Dec(k)) >= w THEN Dec(k) ELSE <<"0">> \o ZeroPad(k, w - 1)

\* printf's "%*s" of the empty string with width k: k spaces
Spaces(k) == [j \in 1..k |-> " "]

NL == <<"\n">>

\* ------------------------------------------------------------------ dates
\* seconds between the Unix epoch and 2001-01-01T00:00:00Z (common.h)
MAC_EPOCH == 978307200

\* the struct tm fields strftime reads; the zero-filled static object
ZeroTm == [tm_year |-> 0, tm_mon |-> 0, tm_mday |-> 0,
           tm_hour |-> 0, tm_min |-> 0, tm_sec |-> 0]

\* localtime(&ti) for ti >= 0, with the process's time zone at UTC: the
\* broken-down calendar time (tm_year counts from 1900, tm_mon from 0)
localtime(ti) ==
    LET days == ti \div 86400
        rem == ti % 86400
        z == days + 719468
        era == z \div 146097
        doe == z - era * 146097
        yoe == (doe - doe \div 1460 + doe \div 36524 - doe \div 146096) \div 365
        doy == doe - (365 * yoe + yoe \div 4 - yoe \div 100)
        mp == (5 * doy + 2) \div 153
        d == doy - (153 * mp + 2) \div 5 + 1
        mo == IF mp < 10 THEN mp + 3 ELSE mp - 9
        y == yoe + era * 400 + (IF mo <= 2 THEN 1 ELSE 0)
    IN  [tm_year |-> y - 1900, tm_mon |-> mo - 1, tm_mday |-> d,
         tm_hour |-> rem \div 3600, tm_min |-> (rem % 3600) \div 60,
         tm_sec |-> rem % 60]

\* strftime(s, 24, "%Y-%m-%dT%H:%M:%SZ", btime)
strftime(tm) ==
    ZeroPad(tm.tm_year + 1900, 4) \o <<"-">> \o ZeroPad(tm.tm_mon + 1, 2)
    \o <<"-">> \o ZeroPad(tm.tm_mday, 2) \o <<"T">> \o ZeroPad(tm.tm_hour, 2)
    \o <<":">> \o ZeroPad(tm.tm_min, 2) \o <<":">> \o ZeroPad(tm.tm_sec, 2)
    \o <<"Z">>

\* ------------------------------------------------------------------ trees
\* a plist_t: its node type, its value (val), for an array its items (kids),
\* for a dictionary its keys and their values (keys, kids), in the order the
\* iterator yields them
Leaf(type, val) == [type |-> type, val |-> val, keys |-> <<>>, kids |-> <<>>]
Array(items) == [type |-> "PLIST_ARRAY", val |-> <<>>, keys |-> <<>>, kids |-> items]
Dict(ks, items) == [type |-> "PLIST_DICT", val |-> <<>>, keys |-> ks, kids |-> items]
\* the NULL plist_t
NullNode == Leaf("NULL", <<>>)

String(chars) == Leaf("PLIST_STRING", chars)
Date(sec) == Leaf("PLIST_DATE", <<sec, 0>>)
Data(bytes) == Leaf("PLIST_DATA", bytes)

plist_get_node_type(node) == node.type
plist_array_get_size(node) == Len(node.kids)
IsContainer(node) == node.type \in {"PLIST_ARRAY", "PLIST_DICT"}
IsEmptyContainer(node) == IsContainer(node) /\ node.kids = <<>>

\* the keys given to a generated dictionary's entries, by position
KeyChars == <<"k", "e", "y", "s", "b", "a", "c", "d">>
KeysFor(items) == [j \in 1..Len(items) |-> <<KeyChars[j]>>]

\* the trees with exactly k nodes whose leaves are drawn from L, and the
\* sequences of such trees with k nodes in all
RECURSIVE TreesOfSize(_, _), Forests(_, _)
TreesOfSize(L, k) ==
    IF k = 1 THEN L \cup {Array(<<>>), Dict(<<>>, <<>>)}
    ELSE {Array(f) : f \in Forests(L, k - 1)}
         \cup {Dict(KeysFor(f), f) : f \in Forests(L, k - 1)}

Forests(L, k) ==
    IF k = 0 THEN {<<>>}
    ELSE UNION {{<<t>> \o f : t \in TreesOfSize(L, j), f \in Forests(L, k - j)}
                : j \in 1..k}

TreesUpTo(L, k) == UNION {TreesOfSize(L, j) : j \in 1..k}

\* leaves drawn for the trees: a string, a date, binary data and a node of
\* a type the switch does not name
LeafNodes ==
    {String(<<"a">>), Date(0), Data(<<77, 97, 110>>), Leaf("PLIST_UID", <<7>>)}

\* two trees larger than MaxNodes: a dictionary whose only entry is an array
\* of three items, and {name: "Phone", tags: ["a", "b"]}
ScenarioTrees ==
    {Dict(<<<<"k">>>>, <<Array(<<String(<<"a">>), String(<<"b">>), String(<<"c">>)>>)>>),
     Dict(<< <<"n", "a", "m", "e">>, <<"t", "a", "g", "s">> >>,
          << String(<<"P", "h", "o", "n", "e">>),
             Array(<<String(<<"a">>), String(<<"b">>)>>) >>)}

\* the roots a single call is given, NULL among them
InputTrees == TreesUpTo(LeafNodes, MaxNodes) \cup ScenarioTrees \cup {NullNode}

\* the leaves and roots of two concurrent calls
ConcLeafNodes == {String(<<"a">>), Date(0), Date(90061)}
ConcInputTrees == TreesUpTo(ConcLeafNodes, MaxConcNodes)

\* the node a path of zero-based child positions leads to
RECURSIVE NodeAt(_, _)
NodeAt(node, path) ==
    IF path = <<>> THEN node ELSE NodeAt(node.kids[Head(path) + 1], Tail(path))

\* ------------------------------------------------------------------ printer
\* the threads that may call the printer
Threads == {1, 2}

\* a FILE*: NULL, or the caller's open stream
NullStream == [null |-> TRUE]
OpenStream == [null |-> FALSE]

\* a frame of the call stack: the function (fn), its node argument, where
\* that node is in the tree (path), the loop position (i), the place in
\* the function (at), and *indent_level and the length of the stream when
\* the function was entered (entry, start)
Frame(fn, node, path, ind, written) ==
    [fn |-> fn, node |-> node, path |-> path, i |-> 0, at |-> "enter",
     entry |-> ind, start |-> written]

Top(stk) == stk[Len(stk)]
Pop(stk) == SubSeq(stk, 1, Len(stk) - 1)
SetTop(stk, f) == [stk EXCEPT ![Len(stk)] = f]

\* a helper returns into its caller: a loop that called
\* plist_node_print_to_stream goes on to its next round (i++, or
\* plist_dict_next_item)
Return(stk) ==
    LET rest == Pop(stk)
    IN  IF rest # <<>> /\ Top(stk).fn = "node" /\ Top(rest).fn \in {"array", "dict"}
        THEN SetTop(rest, [Top(rest) EXCEPT !.i = @ + 1])
        ELSE rest

\* the position of thread t after its stack became stk
PcAfter(stk) == IF stk = <<>> THEN "done" ELSE "running"

NoCall == [node |-> NullNode, entry |-> 0, exit |-> 0, start |-> 0, end |-> 0,
           set |-> FALSE]

\* what plist_node_print_to_stream writes for a node that is no container
\* and no date
ScalarText(node) ==
    CASE node.type = "PLIST_BOOLEAN" ->
           (IF node.val[1] # 0 THEN <<"t", "r", "u", "e">>
                               ELSE <<"f", "a", "l", "s", "e">>) \o NL
      [] node.type = "PLIST_UINT" -> Dec(node.val[1]) \o NL
      [] node.type = "PLIST_REAL" ->
           Dec(node.val[1]) \o <<".">> \o ZeroPad(node.val[2], 6) \o NL
      [] node.type = "PLIST_STRING" -> node.val \o NL
      [] node.type = "PLIST_KEY" -> node.val \o <<":", " ">>
      [] node.type = "PLIST_DATA" ->
           IF Len(node.val) > 0
           THEN LET s == base64encode(Ptr(node.val), Len(node.val))
                IN  IF ~s.null THEN s.data \o NL ELSE NL
           ELSE NL
      [] OTHER -> <<>>

\* a container entered without (*indent_level)++
EnterLevelMutNone(k) == k

\* the value *indent_level has inside a container entered at level k

EnterLevel(k) == k + 1

\* a container left without (*indent_level)--
LeaveLevelMutNone(k) == k

\* the value *indent_level gets when the container is left at level k

LeaveLevel(k) == k - 1

\* a key suffix that counts one item too many
KeySuffixMutCount(subnode) ==
    IF plist_get_node_type(subnode) = "PLIST_ARRAY"
    THEN <<"[">> \o Dec(plist_array_get_size(subnode) + 1) \o <<"]", ":", " ">>
    ELSE <<":", " ">>

\* the text between a dictionary key and its value
KeySuffix(subnode) ==
    IF plist_get_node_type(subnode) = "PLIST_ARRAY"
    THEN <<"[">> \o Dec(plist_array_get_size(subnode)) \o <<"]", ":", " ">>
    ELSE <<":", " ">>

\* labels counted from one
ArrayLabelMutOneBased(i) == Dec(i + 1)

\* the label of item i of an array
ArrayLabel(i) == Dec(i)

\* a guard that returns only when both are NULL
AbsentMutAnd(plist, stream) == plist.type = "NULL" /\ stream.null

\* the guard of plist_print_to_stream_with_indentation
Absent(plist, stream) == plist.type = "NULL" \/ stream.null

\* every root handed to plist_node_print_to_stream
RootHelperMutNode(plist) == "node"

\* which helper the entry point hands a root to
RootHelper(plist) ==
    CASE plist_get_node_type(plist) = "PLIST_DICT" -> "dict"
      [] plist_get_node_type(plist) = "PLIST_ARRAY" -> "array"
      [] OTHER -> "node"

\* plist_print_to_stream_with_indentation(plist, stream, indentation), called
\* by thread t
plist_print_to_stream_with_indentation(t, plist, stream, indentation) ==
    /\ pc[t] = "idle"
    /\ arg' = [arg EXCEPT ![t] = [plist |-> plist, stream |-> stream,
                                  indentation |-> indentation]]
    /\ IF Absent(plist, stream)
       THEN /\ pc' = [pc EXCEPT ![t] = "done"]
            /\ UNCHANGED <<indent, stack>>
       ELSE /\ indent' = [indent EXCEPT ![t] = indentation]
            /\ stack' = [stack EXCEPT ![t] =
                           <<Frame(RootHelper(plist), plist, <<>>, indentation,
                                   Len(out[t]))>>]
            /\ pc' = [pc EXCEPT ![t] = "running"]
    /\ UNCHANGED <<out, log, last, tm_static>>
    /\ UNCHANGED b64vars

\* plist_print_to_stream(plist, stream)
plist_print_to_stream(t, plist, stream) ==
    plist_print_to_stream_with_indentation(t, plist, stream, 0)

\* one round of the loop of plist_array_print_to_stream, up to the call of
\* plist_node_print_to_stream, or the return after the last round
plist_array_print_to_stream(t) ==
    /\ pc[t] = "running"
    /\ Top(stack[t]).fn = "array"
    /\ LET f == Top(stack[t])
           count == plist_array_get_size(f.node)
       IN  IF f.i < count
           THEN LET subnode == f.node.kids[f.i + 1]
                    label == ArrayLabel(f.i)
                    text == Spaces(indent[t]) \o label \o <<":", " ">>
                IN  /\ out' = [out EXCEPT ![t] = @ \o text]
                    /\ log' = [log EXCEPT ![t] = Append(@,
                                 [path |-> Append(f.path, f.i), in |-> "array",
                                  level |-> indent[t], pos |-> Len(out[t]),
                                  label |-> label])]
                    /\ stack' = [stack EXCEPT ![t] = Append(@,
                                   Frame("node", subnode, Append(f.path, f.i),
                                         indent[t], Len(out'[t])))]
                    /\ UNCHANGED pc
           ELSE /\ stack' = [stack EXCEPT ![t] = Return(@)]
                /\ pc' = [pc EXCEPT ![t] = PcAfter(stack'[t])]
                /\ UNCHANGED <<out, log>>
    /\ UNCHANGED <<arg, indent, last, tm_static>>
    /\ UNCHANGED b64vars

\* one round of the loop of plist_dict_print_to_stream, up to the call of
\* plist_node_print_to_stream, or the return once the iterator is exhausted
plist_dict_print_to_stream(t) ==
    /\ pc[t] = "running"
    /\ Top(stack[t]).fn = "dict"
    /\ LET f == Top(stack[t])
       IN  IF f.i < Len(f.node.kids)
           THEN LET subnode == f.node.kids[f.i + 1]
                    key == f.node.keys[f.i + 1]
                    text == Spaces(indent[t]) \o key \o KeySuffix(subnode)
                IN  /\ out' = [out EXCEPT ![t] = @ \o text]
                    /\ log' = [log EXCEPT ![t] = Append(@,
                                 [path |-> Append(f.path, f.i), in |-> "dict",
                                  level |-> indent[t], pos |-> Len(out[t]),
                                  label |-> key])]
                    /\ stack' = [stack EXCEPT ![t] = Append(@,
                                   Frame("node", subnode, Append(f.path, f.i),
                                         indent[t], Len(out'[t])))]
                    /\ UNCHANGED pc
           ELSE /\ stack' = [stack EXCEPT ![t] = Return(@)]
                /\ pc' = [pc EXCEPT ![t] = PcAfter(stack'[t])]
                /\ UNCHANGED <<out, log>>
    /\ UNCHANGED <<arg, indent, last, tm_static>>
    /\ UNCHANGED b64vars

\* the record of a plist_node_print_to_stream call that returns from frame f
\* with *indent_level = ind and the stream holding written characters
Returned(f, ind, written) ==
    [node |-> f.node, entry |-> f.entry, exit |-> ind, start |-> f.start,
     end |-> written, set |-> TRUE]

\* plist_node_print_to_stream from its entry: the whole call for a scalar,
\* a NULL or an unknown type; up to the call of localtime's result being
\* used for a date; up to the call of the container's helper for an array
\* or a dictionary
plist_node_print_to_stream(t) ==
    /\ pc[t] = "running"
    /\ Top(stack[t]).fn = "node"
    /\ Top(stack[t]).at = "enter"
    /\ LET f == Top(stack[t])
           type == plist_get_node_type(f.node)
       IN  CASE type = "NULL" ->
                  /\ stack' = [stack EXCEPT ![t] = Return(@)]
                  /\ last' = [last EXCEPT ![t] = Returned(f, indent[t], Len(out[t]))]
                  /\ UNCHANGED <<out, indent, tm_static>>
             [] type = "PLIST_DATE" ->
                  /\ tm_static' = localtime(f.node.val[1] + MAC_EPOCH)
                  /\ stack' = [stack EXCEPT ![t] = SetTop(@, [f EXCEPT !.at = "strftime"])]
                  /\ UNCHANGED <<out, indent, last>>
             [] type \in {"PLIST_ARRAY", "PLIST_DICT"} ->
                  /\ out' = [out EXCEPT ![t] = @ \o NL]
                  /\ indent' = [indent EXCEPT ![t] = EnterLevel(@)]
                  /\ stack' = [stack EXCEPT ![t] =
                       Append(SetTop(@, [f EXCEPT !.at = "return"]),
                              Frame(IF type = "PLIST_ARRAY" THEN "array" ELSE "dict",
                                    f.node, f.path, indent'[t], Len(out'[t])))]
                  /\ UNCHANGED <<last, tm_static>>
             [] OTHER ->
                  /\ out' = [out EXCEPT ![t] = @ \o ScalarText(f.node)]
                  /\ stack' = [stack EXCEPT ![t] = Return(@)]
                  /\ last' = [last EXCEPT ![t] = Returned(f, indent[t], Len(out'[t]))]
                  /\ UNCHANGED <<indent, tm_static>>
    /\ pc' = [pc EXCEPT ![t] = PcAfter(stack'[t])]
    /\ UNCHANGED <<arg, log>>
    /\ UNCHANGED b64vars

\* case PLIST_DATE after localtime returned its pointer: strftime reads the
\* struct tm behind it, the text (or a bare newline) is written
plist_node_print_date(t) ==
    /\ pc[t] = "running"
    /\ Top(stack[t]).fn = "node"
    /\ Top(stack[t]).at = "strftime"
    /\ LET f == Top(stack[t])
           s == strftime(tm_static)
       IN  /\ out' = [out EXCEPT ![t] = @ \o (IF Len(s) > 0 THEN s \o NL ELSE NL)]
           /\ stack' = [stack EXCEPT ![t] = Return(@)]
           /\ last' = [last EXCEPT ![t] = Returned(f, indent[t], Len(out'[t]))]
    /\ pc' = [pc EXCEPT ![t] = PcAfter(stack'[t])]
    /\ UNCHANGED <<arg, indent, log, tm_static>>
    /\ UNCHANGED b64vars

\* case PLIST_ARRAY / PLIST_DICT after the helper returned:
\* (*indent_level)--; break;
plist_node_print_leave(t) ==
    /\ pc[t] = "running"
    /\ Top(stack[t]).fn = "node"
    /\ Top(stack[t]).at = "return"
    /\ LET f == Top(stack[t])
       IN  /\ indent' = [indent EXCEPT ![t] = LeaveLevel(@)]
           /\ stack' = [stack EXCEPT ![t] = Return(@)]
           /\ last' = [last EXCEPT ![t] = Returned(f, indent'[t], Len(out[t]))]
    /\ pc' = [pc EXCEPT ![t] = PcAfter(stack'[t])]
    /\ UNCHANGED <<arg, out, log, tm_static>>
    /\ UNCHANGED b64vars

\* ------------------------------------------------------------------ specifications
\* every one-byte buffer, every two-byte buffer, and three-byte buffers
\* with every value of the second byte and of the third byte
BytePairs ==
    {<<a>> : a \in 0..255}
    \cup {<<a, b>> : a \in 0..255, b \in 0..255}
    \cup {<<0, a, b>> : a \in 0..255, b \in {0, 63, 64, 128, 192, 255}}
    \cup {<<0, 0, a>> : a \in 0..255}

\* the buffers and sizes base64encode is called with: a null buffer with
\* any size, or a buffer together with its length
B64Args ==
    {[buf |-> NullPtr, size |-> k] : k \in 0..MaxBufLen}
    \cup {[buf |-> Ptr(b), size |-> Len(b)] :
            b \in SeqsUpTo(B64Bytes, MaxBufLen) \cup BytePairs}

NoArg == [plist |-> NullNode, stream |-> NullStream, indentation |-> 0]

\* no printer call made yet
InitPrinter ==
    /\ pc = [t \in Threads |-> "idle"]
    /\ arg = [t \in Threads |-> NoArg]
    /\ indent = [t \in Threads |-> 0]
    /\ stack = [t \in Threads |-> <<>>]
    /\ out = [t \in Threads |-> <<>>]
    /\ log = [t \in Threads |-> <<>>]
    /\ last = [t \in Threads |-> NoCall]
    /\ tm_static = ZeroTm

\* base64encode called with the arguments a
InitEncoder(a) ==
    /\ buf = a.buf
    /\ size = a.size
    /\ bpc = "call"
    /\ outbuf = <<>>
    /\ n = 0
    /\ m = 0
    /\ oob = FALSE
    /\ badidx = FALSE
    /\ ret = NullPtr

\* one thread calls the printer once
Init == InitPrinter /\ InitEncoder([buf |-> NullPtr, size |-> 0])

Step(t) ==
    \/ plist_array_print_to_stream(t)
    \/ plist_dict_print_to_stream(t)
    \/ plist_node_print_to_stream(t)
    \/ plist_node_print_date(t)
    \/ plist_node_print_leave(t)

Next ==
    \/ /\ pc[1] = "idle"
       /\ \E plist \in InputTrees, stream \in {NullStream, OpenStream},
             indentation \in 0..MaxIndent :
            plist_print_to_stream_with_indentation(1, plist, stream, indentation)
    \/ /\ pc[1] = "idle"
       /\ \E plist \in InputTrees, stream \in {NullStream, OpenStream} :
            plist_print_to_stream(1, plist, stream)
    \/ Step(1)

Spec == Init /\ [][Next]_vars

\* base64encode is called once
InitB64 == InitPrinter /\ \E a \in B64Args : InitEncoder(a)

NextB64 ==
    \/ base64encode_enter
    \/ base64encode_loop
    \/ base64encode_exit

SpecB64 == InitB64 /\ [][NextB64]_vars

\* two threads each call the printer once, each with its own tree and stream
NextConc ==
    \E t \in Threads :
       \/ /\ pc[t] = "idle"
          /\ \E plist \in ConcInputTrees :
               plist_print_to_stream(t, plist, OpenStream)
       \/ Step(t)

SpecConc == Init /\ [][NextConc]_vars
\* ------------------------------------------------------------------ reference definitions
\* standard base64 of a byte sequence: each group of three bytes read as one
\* 24-bit number and cut into four 6-bit digits
RefSymbol(v, k) == base64_str[((v \div Pow2(6 * (3 - k))) % 64) + 1]

RECURSIVE RefBase64(_)
RefBase64(bytes) ==
    LET len == Len(bytes)
        b1 == IF len >= 2 THEN bytes[2] ELSE 0
        b2 == IF len >= 3 THEN bytes[3] ELSE 0
    IN  IF len = 0 THEN <<>>
        ELSE LET v == bytes[1] * 65536 + b1 * 256 + b2
             IN  IF len = 1 THEN <<RefSymbol(v, 0), RefSymbol(v, 1), "=", "=">>
                 ELSE IF len = 2
                 THEN <<RefSymbol(v, 0), RefSymbol(v, 1), RefSymbol(v, 2), "=">>
                 ELSE <<RefSymbol(v, 0), RefSymbol(v, 1), RefSymbol(v, 2),
                        RefSymbol(v, 3)>> \o RefBase64(SubSeq(bytes, 4, len))

\* the standard inverse: the bytes a base64 text stands for
RefIndex(c) == IF c = "=" THEN 0 ELSE (CHOOSE k \in 1..64 : base64_str[k] = c) - 1

RECURSIVE RefDecode(_)
RefDecode(text) ==
    IF Len(text) < 4 THEN <<>>
    ELSE LET v == RefIndex(text[1]) * 262144 + RefIndex(text[2]) * 4096
                  + RefIndex(text[3]) * 64 + RefIndex(text[4])
             bytes == <<v \div 65536, (v \div 256) % 256, v % 256>>
             keep == IF text[3] = "=" THEN 1 ELSE IF text[4] = "=" THEN 2 ELSE 3
         IN  SubSeq(bytes, 1, keep) \o RefDecode(SubSeq(text, 5, Len(text)))

CeilDiv(a, b) == (a + b - 1) \div b

\* the text of a tree, with the depth handed down by value
RECURSIVE RefNode(_, _), RefItems(_, _, _)
RefNode(node, d) ==
    CASE node.type \in {"PLIST_ARRAY", "PLIST_DICT"} -> NL \o RefItems(node, d + 1, 1)
      [] node.type = "PLIST_DATE" -> strftime(localtime(node.val[1] + MAC_EPOCH)) \o NL
      [] OTHER -> ScalarText(node)

RefItems(node, d, j) ==
    IF j > Len(node.kids) THEN <<>>
    ELSE LET kid == node.kids[j]
             label == IF node.type = "PLIST_ARRAY" THEN Dec(j - 1)
                      ELSE IF kid.type = "PLIST_ARRAY"
                      THEN node.keys[j] \o <<"[">> \o Dec(Len(kid.kids)) \o <<"]">>
                      ELSE node.keys[j]
         IN  [s \in 1..d |-> " "] \o label \o <<":", " ">> \o RefNode(kid, d)
             \o RefItems(node, d, j + 1)

RefRender(plist, ind) ==
    IF plist.type \in {"PLIST_ARRAY", "PLIST_DICT"} THEN RefItems(plist, ind, 1)
    ELSE RefNode(plist, ind)

\* the entries of a tree in document order, each with its path and label
RECURSIVE RefEntries(_, _, _)
RefEntries(node, path, j) ==
    IF j > Len(node.kids) THEN <<>>
    ELSE <<[path |-> Append(path, j - 1),
            label |-> IF node.type = "PLIST_ARRAY" THEN Dec(j - 1) ELSE node.keys[j]]>>
         \o RefEntries(node.kids[j], Append(path, j - 1), 1)
         \o RefEntries(node, path, j + 1)

\* the number of spaces in text from position p + 1 on
RECURSIVE LeadingSpaces(_, _)
LeadingSpaces(text, p) ==
    IF p + 1 <= Len(text) /\ text[p + 1] = " " THEN 1 + LeadingSpaces(text, p + 1)
    ELSE 0

IsPrefix(s, r) == Len(s) <= Len(r) /\ s = SubSeq(r, 1, Len(s))

\* thread t called the printer with a root and a stream
Called(t) == pc[t] # "idle" /\ arg[t].plist # NullNode /\ ~arg[t].stream.null
Finished(t) == pc[t] = "done" /\ arg[t].plist # NullNode /\ ~arg[t].stream.null

\* ------------------------------------------------------------------ claims

\* C1, as stated: in a call with starting indentation 0, the counter's value
\* and the number of spaces written before the label of any node equal the
\* node's depth, the root being at depth 0.
C1_IndentEqualsDepth ==
    \A t \in Threads : \A k \in 1..Len(log[t]) :
       Called(t) /\ arg[t].indentation = 0 =>
          /\ log[t][k].level = Len(log[t][k].path)
          /\ LeadingSpaces(out[t], log[t][k].pos) = Len(log[t][k].path)

\* C1, amended: in a call with starting indentation 0, the counter's value
\* and the number of spaces written before the label of any node equal the
\* node's depth minus one (the depth of the container it is an entry of), the
\* root being at depth 0.
C1_IndentIsParentDepth ==
    \A t \in Threads : \A k \in 1..Len(log[t]) :
       Called(t) /\ arg[t].indentation = 0 =>
          /\ log[t][k].level = Len(log[t][k].path) - 1
          /\ LeadingSpaces(out[t], log[t][k].pos) = Len(log[t][k].path) - 1

\* a finished call with starting indentation 0 that wrote an entry at depth 3
\* behind two spaces
C1_Witness ==
    /\ Finished(1)
    /\ arg[1].indentation = 0
    /\ \E k \in 1..Len(log[1]) :
          /\ Len(log[1][k].path) = 3
          /\ LeadingSpaces(out[1], log[1][k].pos) = 2

\* C2: the counter has the same value when plist_node_print_to_stream
\* returns as when it was called; it keeps that value while a scalar, null
\* or unknown node is handled; a container's helper runs with the value
\* plus one, every round of its loop starts with it, and after the whole
\* call the counter is the starting indentation.
C2_IndentRestored ==
    \A t \in Threads :
       /\ last[t].set => last[t].exit = last[t].entry
       /\ \A k \in 1..Len(stack[t]) :
             LET f == stack[t][k]
             IN  /\ (f.fn = "node" /\ f.at = "return") =>
                       IF k < Len(stack[t])
                       THEN stack[t][k + 1].entry = f.entry + 1
                       ELSE indent[t] = f.entry + 1
                 /\ (k = Len(stack[t]) /\ ~(f.fn = "node" /\ f.at = "return")) =>
                       indent[t] = f.entry
       /\ Finished(t) => indent[t] = arg[t].indentation

\* a call with starting indentation 1 has finished and the node call that
\* returned last was a container's, back at the level it was entered with
C2_Witness ==
    /\ Finished(1)
    /\ arg[1].indentation = 1
    /\ last[1].set
    /\ last[1].node.type = "PLIST_DICT"
    /\ last[1].node.kids # <<>>
    /\ last[1].entry = 1
    /\ last[1].exit = 1
    /\ indent[1] = 1

\* C3: for a non-empty buffer base64encode returns the text of the
\* reference encoder, which decodes to the buffer again, and the loop
\* gives what the function gives as a whole.
C3_MatchesReference ==
    (bpc = "done" /\ ~buf.null /\ size > 0) =>
       /\ ~ret.null
       /\ CStr(ret.data) = RefBase64(buf.data)
       /\ RefDecode(CStr(ret.data)) = buf.data
       /\ CStr(ret.data) = base64encode(buf, size).data

\* the bytes 0x4D 0x61 0x6E were encoded as TWFu
C3_Witness ==
    /\ bpc = "done"
    /\ buf = Ptr(<<77, 97, 110>>)
    /\ ~ret.null
    /\ CStr(ret.data) = <<"T", "W", "F", "u">>

\* C4: for a buffer of L bytes the returned text has ceil(L/3)*4
\* characters, a multiple of 4; nothing (NULL) is returned exactly when L is
\* 0, and for a null buffer.
C4_OutputLength ==
    bpc = "done" =>
       LET textlen == IF ret.null THEN 0 ELSE Len(CStr(ret.data))
       IN  /\ buf.null => ret.null
           /\ ~buf.null =>
                 /\ textlen = CeilDiv(size, 3) * 4
                 /\ textlen % 4 = 0
                 /\ (textlen = 0) <=> (size = 0)
                 /\ ret.null <=> (size = 0)

\* four bytes were encoded as eight characters
C4_Witness ==
    /\ bpc = "done"
    /\ ~buf.null
    /\ size = 4
    /\ ~ret.null
    /\ Len(CStr(ret.data)) = 8

\* C5, as stated: an empty array or dictionary gives exactly one newline and
\* nothing else, as a nested node and as the root of the call.
C5_EmptyContainerOneNewline ==
    \A t \in Threads :
       /\ (last[t].set /\ IsEmptyContainer(last[t].node)) =>
             SubSeq(out[t], last[t].start + 1, last[t].end) = NL
       /\ (Finished(t) /\ IsEmptyContainer(arg[t].plist)) => out[t] = NL

\* C5, amended: an empty array or dictionary that is an entry of a container
\* gives exactly one newline and nothing else; as the root of the call it
\* gives no output at all.
C5_EmptyContainerNested ==
    \A t \in Threads :
       /\ (last[t].set /\ IsEmptyContainer(last[t].node)) =>
             SubSeq(out[t], last[t].start + 1, last[t].end) = NL
       /\ (Finished(t) /\ IsEmptyContainer(arg[t].plist)) => out[t] = <<>>

\* the node call that returned last was for an empty dictionary inside an
\* array
C5_Witness ==
    /\ Called(1)
    /\ arg[1].plist.type = "PLIST_ARRAY"
    /\ last[1].set
    /\ last[1].node = Dict(<<>>, <<>>)
    /\ last[1].end = last[1].start + 1

\* C6, as stated: with two threads printing their own trees to their own
\* streams, each finished call wrote what it writes when run alone.
C6_ConcurrentOutputAsAlone ==
    \A t \in Threads :
       Finished(t) => out[t] = RefRender(arg[t].plist, arg[t].indentation)

\* C7: in the stream, a dictionary key is followed by "[N]: " with N the
\* item count of its value when the value is an array, and by ": " otherwise;
\* once the call has finished, N entries of that array were written.
C7_KeySuffix ==
    \A t \in Threads : \A k \in 1..Len(log[t]) :
       LET e == log[t][k]
           v == NodeAt(arg[t].plist, e.path)
           after == e.pos + e.level + Len(e.label)
           expect == IF v.type = "PLIST_ARRAY"
                     THEN <<"[">> \o Dec(Len(v.kids)) \o <<"]", ":", " ">>
                     ELSE <<":", " ">>
           items == {j \in 1..Len(log[t]) :
                        /\ Len(log[t][j].path) = Len(e.path) + 1
                        /\ IsPrefix(e.path, log[t][j].path)}
       IN  e.in = "dict" =>
              /\ SubSeq(out[t], e.pos + e.level + 1, after) = e.label
              /\ SubSeq(out[t], after + 1, after + Len(expect)) = expect
              /\ (Finished(t) /\ v.type = "PLIST_ARRAY") =>
                    Cardinality(items) = Len(v.kids)

\* the dictionary whose only entry is an array of three items was printed
\* as k[3]: followed by the three items
C7_Witness ==
    /\ Finished(1)
    /\ arg[1].indentation = 0
    /\ arg[1].plist.type = "PLIST_DICT"
    /\ Len(arg[1].plist.kids) = 1
    /\ arg[1].plist.kids[1].type = "PLIST_ARRAY"
    /\ Len(arg[1].plist.kids[1].kids) = 3
    /\ SubSeq(out[1], 1, 7) = <<"k", "[", "3", "]", ":", " ", "\n">>
    /\ Len(log[1]) = 4

\* C8: entries are written in document order, each once: the entries written
\* so far are the first entries of the tree in that order, an array's labels
\* being 0, 1, ... and a dictionary's its keys; the finished output is each
\* label directly followed by the whole text of its value, then the next
\* entry.
C8_EntriesInOrder ==
    \A t \in Threads :
       Called(t) =>
          LET want == RefEntries(arg[t].plist, <<>>, 1)
              got == [k \in 1..Len(log[t]) |->
                        [path |-> log[t][k].path, label |-> log[t][k].label]]
          IN  /\ IsPrefix(got, want)
              /\ pc[t] = "done" =>
                    /\ got = want
                    /\ out[t] = RefRender(arg[t].plist, arg[t].indentation)

\* {name: "Phone", tags: ["a", "b"]} was printed: four entries, the
\* array's labelled 0 and 1
C8_Witness ==
    /\ Finished(1)
    /\ Len(arg[1].plist.kids) = 2
    /\ Len(log[1]) = 4
    /\ log[1][1].label = <<"n", "a", "m", "e">>
    /\ log[1][2].label = <<"t", "a", "g", "s">>
    /\ log[1][3].label = <<"0">>
    /\ log[1][4].label = <<"1">>
    /\ log[1][4].path = <<1, 1>>

\* C9: a call with a NULL root or a NULL stream returns at once: nothing is
\* written, no helper is called and nothing else changes, whatever the
\* starting indentation.
C9_AbsentIsNoOp ==
    \A t \in Threads :
       (pc[t] # "idle" /\ (arg[t].plist = NullNode \/ arg[t].stream.null)) =>
          /\ pc[t] = "done"
          /\ out[t] = <<>>
          /\ stack[t] = <<>>
          /\ log[t] = <<>>
          /\ indent[t] = 0
          /\ ~last[t].set
          /\ tm_static = ZeroTm

\* a call with a tree, no stream and starting indentation 1 has returned
C9_Witness ==
    /\ pc[1] = "done"
    /\ arg[1].plist.type = "PLIST_DICT"
    /\ arg[1].plist.kids # <<>>
    /\ arg[1].stream.null
    /\ arg[1].indentation = 1
    /\ out[1] = <<>>

====
